---- MODULE Spec2Model ----
(***************************************************************************)
(* The two maintenance scripts of the repository,                          *)
(*   fix_quiz_width_final.py  and  reduce_quiz_sizes.py,                   *)
(* run against the one file components/project-tabs/quiz-tab.tsx.          *)
(*                                                                         *)
(* The file on disk is a string of characters (the UTF-8 decoding of its   *)
(* bytes).  Python's text-mode open() translates line ends: f.read() turns *)
(* "\r\n" and a lone "\r" into "\n", f.write() turns "\n" into os.linesep. *)
(* A script is the sequence of its statements; pc is the position in it.   *)
(* Every open/read/write may raise (file not found, permission denied, an  *)
(* I/O or decoding error); no statement is inside a try block.             *)
(***************************************************************************)
EXTENDS Integers, Sequences, FiniteSets, TLC

(* The number of fragments an initial file content is built from. *)
MaxPieces == 2

----------------------------------------------------------------------------
(* The literals of the sources.                                            *)

(* A string of this language cannot hold a grave accent.  The grave accent *)
(* of the source is written as the apostrophe, a character that occurs in  *)
(* no literal of either script.                                            *)
GraveAccent == "'"

(* Assigned at lines 16 and 17 and never used again. *)
old_progress_calc ==
  "width: " \o GraveAccent
    \o "${Math.min(((currentQuestionIndex + 1) / totalQuestions) * 100, 100)}%"
    \o GraveAccent

new_progress_calc ==
  "width: " \o GraveAccent
    \o "${Math.min(((currentQuestionIndex + 1) / totalQuestions) * 100, 100)}%"
    \o GraveAccent

FixRules ==
  << << "  return (\n    <div className=\"space-y-6 w-full max-w-full overflow-x-hidden box-border\">",
        "  return (\n    <div className=\"space-y-6 w-full max-w-full overflow-x-hidden box-border\" style={{ width: \"100%\", maxWidth: \"100%\" }}>" >>,
     << "        <div className=\"w-full bg-gray-200 rounded-full h-2 sm:h-3 overflow-hidden\">",
        "        <div className=\"w-full bg-gray-200 rounded-full h-2 sm:h-3 overflow-hidden\" style={{ width: \"100%\", maxWidth: \"100%\" }}>" >>,
     << "            className=\"bg-emerald-600 h-2 sm:h-3 rounded-full transition-all duration-300 max-w-full\"",
        "            className=\"bg-emerald-600 h-2 sm:h-3 rounded-full transition-all duration-300\" style={{ maxWidth: \"100%\" }}" >>,
     << "      <div className=\"glass-card rounded-2xl p-4 sm:p-6 w-full max-w-full overflow-hidden\">",
        "      <div className=\"glass-card rounded-2xl p-4 sm:p-6 w-full max-w-full overflow-hidden box-border\" style={{ width: \"100%\", maxWidth: \"100%\", boxSizing: \"border-box\" }}>" >>,
     << "      <div className=\"glass-card rounded-2xl p-4 sm:p-6 md:p-8 w-full max-w-full overflow-hidden\">",
        "      <div className=\"glass-card rounded-2xl p-4 sm:p-6 md:p-8 w-full max-w-full overflow-hidden box-border\" style={{ width: \"100%\", maxWidth: \"100%\", boxSizing: \"border-box\" }}>" >>,
     << "      <div className=\"space-y-4 w-full max-w-full overflow-x-hidden\">",
        "      <div className=\"space-y-4 w-full max-w-full overflow-x-hidden box-border\" style={{ width: \"100%\", maxWidth: \"100%\" }}>" >>,
     << "        <div className=\"flex items-center gap-2 w-full min-w-0\">",
        "        <div className=\"flex items-center gap-2 w-full min-w-0 box-border\" style={{ width: \"100%\", maxWidth: \"100%\" }}>" >>,
     << "            className=\"flex-1 min-w-0 overflow-x-auto px-2 scrollbar-hide\"",
        "            className=\"flex-1 min-w-0 overflow-x-auto px-2 scrollbar-hide box-border\" style={{ minWidth: 0, maxWidth: \"100%\" }}>" >>,
     << "        <div className=\"flex items-center justify-between gap-4 w-full min-w-0\">",
        "        <div className=\"flex items-center justify-between gap-4 w-full min-w-0 box-border\" style={{ width: \"100%\", maxWidth: \"100%\" }}>" >> >>

ReduceRules ==
  << << "text-sm sm:text-base font-medium", "text-xs font-medium" >>,
     << "text-xs sm:text-sm", "text-xs" >>,
     << "w-8 h-8 sm:w-10 sm:h-10", "w-6 h-6" >>,
     << "text-xs sm:text-sm", "text-xs" >>,
     << "h-4 w-4", "h-3 w-3" >>,
     << "h-2 sm:h-3", "h-1.5" >>,
     << "p-4 sm:p-6", "p-2 sm:p-3" >>,
     << "p-4 sm:p-6 md:p-8", "p-2 sm:p-3" >> >>

FixMessage == "File updated successfully!"

ReduceMessage == "Reduced all sizes!"

Fix == "fix_quiz_width_final"

Reduce == "reduce_quiz_sizes"

Scripts == {Fix, Reduce}

(* Rules with a tenth replace in fix_quiz_width_final.py, of the pair of   *)
(* lines 16 and 17 with a new text that differs.                           *)
RulesWithProgressRule(s) ==
  IF s = Fix
  THEN Append(FixRules,
              << old_progress_calc,
                 "width: " \o GraveAccent
                   \o "${((currentQuestionIndex + 1) / totalQuestions) * 100}%"
                   \o GraveAccent >>)
  ELSE ReduceRules

(* Rules with a misspelt old text at line 11 of reduce_quiz_sizes.py. *)
RulesWithTypo(s) ==
  IF s = Fix THEN FixRules
  ELSE [ReduceRules EXCEPT ![4] = << "text-xs sm:text-sn", "text-xs" >>]

(* Rules with a broader padding rule at line 26 of reduce_quiz_sizes.py. *)
RulesWithBroadPadding(s) ==
  IF s = Fix THEN FixRules
  ELSE [ReduceRules EXCEPT ![7] = << "p-4", "p-2" >>]

(* The (old, new) pairs of a script's replace calls, in the order of the source. *)
Rules(s) == IF s = Fix THEN FixRules ELSE ReduceRules

Message(s) == IF s = Fix THEN FixMessage ELSE ReduceMessage

----------------------------------------------------------------------------
(* str.replace(old, new), for a non-empty old: the occurrences of old are  *)
(* found from the left, each search starting where the previous occurrence *)
(* ended, and the pieces between them are joined with new.                 *)

MatchAt(s, old, i) == SubSeq(s, i, i + Len(old) - 1) = old

(* str.find(old, from): the first position >= from where old occurs, 0 for none. *)
Find(s, old, from) ==
  LET first == SubSeq(old, 1, 1)
      last  == Len(s) - Len(old) + 1
      at    == {i \in from..last : SubSeq(s, i, i) = first /\ MatchAt(s, old, i)}
  IN  IF at = {} THEN 0 ELSE CHOOSE i \in at : \A j \in at : i <= j

(* FindAll as replace(old, new, 1) would have it: the first occurrence only. *)
FindFirstOnly(s, old, from) ==
  LET i == Find(s, old, from)
  IN  IF i = 0 THEN << >> ELSE << i >>

RECURSIVE FindAll(_, _, _)
FindAll(s, old, from) ==
  LET i == Find(s, old, from)
  IN  IF i = 0 THEN << >> ELSE << i >> \o FindAll(s, old, i + Len(old))

RECURSIVE Splice(_, _, _, _, _, _)
Splice(s, hits, k, from, width, new) ==
  IF k > Len(hits) THEN SubSeq(s, from, Len(s))
  ELSE SubSeq(s, from, hits[k] - 1) \o new
         \o Splice(s, hits, k + 1, hits[k] + width, width, new)

Replace(s, old, new) == Splice(s, FindAll(s, old, 1), 1, 1, Len(old), new)

(* content = content.replace(old, new), rule after rule, from rule k on. *)
RECURSIVE ApplyFrom(_, _, _)
ApplyFrom(rules, k, s) ==
  IF k > Len(rules) THEN s
  ELSE ApplyFrom(rules, k + 1, Replace(s, rules[k][1], rules[k][2]))

----------------------------------------------------------------------------
(* open(path, 'r' or 'w', encoding='utf-8') with the default newline=None. *)

(* Decode with newline='': the file is read as it is. *)
DecodeRaw(data) == data

(* f.read(): every "\r\n" and every remaining "\r" of the file is "\n". *)
Decode(data) == Replace(Replace(data, "\r\n", "\n"), "\r", "\n")

(* f.write(content): every "\n" of content is written as os.linesep. *)
Encode(text, sep) == IF sep = "\n" THEN text ELSE Replace(text, "\n", sep)

(* os.linesep: "\n" on POSIX, "\r\n" on Windows. *)
LineSeps == {"\n", "\r\n"}

Absent == [kind |-> "absent", data |-> ""]

File(data) == [kind |-> "file", data |-> data]

(* What a write that raised leaves behind: some part of data, unknown. *)
Torn(data) == [kind |-> "torn", data |-> data]

----------------------------------------------------------------------------
(* The statements of each script, in the order of the source.              *)

Stmt(op, rule) == [op |-> op, rule |-> rule]

(* FixProgram with the file written before the last replace. *)
FixProgramEarlyWrite ==
  << Stmt("open_r", 0), Stmt("read", 0) >>
    \o [k \in 1..(Len(Rules(Fix)) - 1) |-> Stmt("replace", k)]
    \o << Stmt("open_w", 0), Stmt("write", 0),
          Stmt("replace", Len(Rules(Fix))), Stmt("print", 0) >>

FixProgram ==
  << Stmt("open_r", 0), Stmt("read", 0) >>
    \o [k \in 1..Len(Rules(Fix)) |-> Stmt("replace", k)]
    \o << Stmt("open_w", 0), Stmt("write", 0), Stmt("print", 0) >>

ReduceProgram ==
  << Stmt("open_r", 0), Stmt("read", 0) >>
    \o [k \in 1..6 |-> Stmt("replace", k)]
    \o << Stmt("open_w", 0), Stmt("write", 0),
          Stmt("open_r", 0), Stmt("read", 0),
          Stmt("replace", 7), Stmt("replace", 8),
          Stmt("open_w", 0), Stmt("write", 0), Stmt("print", 0) >>

Program(s) == IF s = Fix THEN FixProgram ELSE ReduceProgram

(* Uncaught with the exception swallowed: the script goes on. *)
Swallowed(at) == [status |-> "running", pc |-> at + 1]

(* No statement is inside a try block: an exception ends the process where *)
(* it is raised.                                                           *)
Uncaught(at) == [status |-> "crashed", pc |-> at]

----------------------------------------------------------------------------
(* The initial contents of quiz-tab.tsx: up to MaxPieces fragments of the  *)
(* markup the scripts are written against.                                 *)

(* The opening of the component's return, in a file with "\r\n" line ends. *)
MainContainer ==
  "  return (\r\n    <div className=\"space-y-6 w-full max-w-full overflow-x-hidden box-border\">"

ProgressBar ==
  FixRules[2][1] \o "\n          <div\n" \o FixRules[3][1]
    \o "\n            style={{ " \o old_progress_calc \o " }}"

GlassCards == FixRules[4][1] \o "\n" \o FixRules[5][1]

Navigation ==
  FixRules[6][1] \o "\n" \o FixRules[7][1] \o "\n          <div\n"
    \o FixRules[8][1] \o "\n" \o FixRules[9][1]

TextClasses == "text-xs sm:text-sm sm:text-sm"

ButtonClasses ==
  " sm:text-sm w-8 h-8 sm:w-10 sm:h-10 text-sm sm:text-base font-medium h-4 w-4"

Pieces ==
  { MainContainer, ProgressBar, GlassCards, Navigation, TextClasses, ButtonClasses }

RECURSIVE Contents(_)
Contents(n) ==
  IF n = 0 THEN {""}
  ELSE LET shorter == Contents(n - 1)
       IN  shorter \cup {c \o p : c \in shorter, p \in Pieces}

----------------------------------------------------------------------------
VARIABLES
  linesep,     \* os.linesep of the machine the scripts run on
  disk,        \* components/project-tabs/quiz-tab.tsx
  script,      \* the script of the current (or last) process, "none" before
  status,      \* "idle", "running", "done" (exit 0) or "crashed" (traceback)
  pc,          \* index of the next statement in Program(script)
  content,     \* the variable content
  f,           \* the open file of the with block: "closed", "r" or "w"
  out,         \* what the process has printed
  startDisk,   \* history: disk when the process started
  readLog,     \* history: the strings f.read() returned in this process
  writeLog,    \* history: the strings passed to f.write() in this process
  failedAt,    \* history: pc of the statement that raised, 0 for none
  prevScript,  \* history: the script that completed just before this process
  prevRead     \* history: what that script's first f.read() returned

vars == << linesep, disk, script, status, pc, content, f, out,
           startDisk, readLog, writeLog, failedAt, prevScript, prevRead >>

hist == << startDisk, prevScript, prevRead >>

Init ==
  /\ linesep \in LineSeps
  /\ disk \in {Absent} \cup {File(d) : d \in Contents(MaxPieces)}
  /\ script = "none"
  /\ status = "idle"
  /\ pc = 0
  /\ content = ""
  /\ f = "closed"
  /\ out = << >>
  /\ startDisk = disk
  /\ readLog = << >>
  /\ writeLog = << >>
  /\ failedAt = 0
  /\ prevScript = "none"
  /\ prevRead = ""

Running(op) ==
  /\ status = "running"
  /\ pc <= Len(Program(script))
  /\ Program(script)[pc].op = op

(* The statement at pc raises. *)
Raise ==
  /\ status' = Uncaught(pc).status
  /\ pc' = Uncaught(pc).pc
  /\ failedAt' = pc
  /\ f' = "closed"

(* python3 <script>.py, once the previous process has exited normally. *)
Start(s) ==
  /\ status \in {"idle", "done"}
  /\ script' = s
  /\ status' = "running"
  /\ pc' = 1
  /\ content' = ""
  /\ f' = "closed"
  /\ out' = << >>
  /\ startDisk' = disk
  /\ readLog' = << >>
  /\ writeLog' = << >>
  /\ failedAt' = 0
  /\ prevScript' = script
  /\ prevRead' = IF readLog = << >> THEN "" ELSE readLog[1]
  /\ UNCHANGED << linesep, disk >>

(* with open('components/project-tabs/quiz-tab.tsx', 'r', encoding='utf-8') as f: *)
OpenRead ==
  /\ Running("open_r")
  /\ \/ /\ disk.kind = "file"
        /\ f' = "r"
        /\ pc' = pc + 1
        /\ UNCHANGED << status, failedAt >>
     \/ Raise
  /\ UNCHANGED << linesep, disk, script, content, out, readLog, writeLog, hist >>

(*     content = f.read() *)
Read ==
  /\ Running("read")
  /\ f = "r"
  /\ \/ /\ content' = Decode(disk.data)
        /\ readLog' = Append(readLog, content')
        /\ f' = "closed"
        /\ pc' = pc + 1
        /\ UNCHANGED << status, failedAt >>
     \/ /\ Raise
        /\ UNCHANGED << content, readLog >>
  /\ UNCHANGED << linesep, disk, script, out, writeLog, hist >>

(* ReplaceStep with a replace that raises when old does not occur. *)
ReplaceStepStrict ==
  /\ Running("replace")
  /\ LET rule == Rules(script)[Program(script)[pc].rule]
     IN  \/ /\ Find(content, rule[1], 1) # 0
            /\ content' = Replace(content, rule[1], rule[2])
            /\ pc' = pc + 1
            /\ UNCHANGED << status, f, failedAt >>
         \/ /\ Find(content, rule[1], 1) = 0
            /\ Raise
            /\ UNCHANGED content
  /\ UNCHANGED << linesep, disk, script, out, readLog, writeLog, hist >>

(* content = content.replace(old, new) *)
ReplaceStep ==
  /\ Running("replace")
  /\ LET rule == Rules(script)[Program(script)[pc].rule]
     IN  content' = Replace(content, rule[1], rule[2])
  /\ pc' = pc + 1
  /\ UNCHANGED << linesep, disk, script, status, f, out,
                  readLog, writeLog, failedAt, hist >>

(* with open('components/project-tabs/quiz-tab.tsx', 'w', encoding='utf-8') as f: *)
(* opening for writing creates the file or truncates it.                          *)
OpenWrite ==
  /\ Running("open_w")
  /\ \/ /\ disk' = File("")
        /\ f' = "w"
        /\ pc' = pc + 1
        /\ UNCHANGED << status, failedAt >>
     \/ /\ Raise
        /\ UNCHANGED disk
  /\ UNCHANGED << linesep, script, content, out, readLog, writeLog, hist >>

(*     f.write(content), and the close at the end of the with block *)
Write ==
  /\ Running("write")
  /\ f = "w"
  /\ \/ /\ disk' = File(Encode(content, linesep))
        /\ writeLog' = Append(writeLog, content)
        /\ f' = "closed"
        /\ pc' = pc + 1
        /\ UNCHANGED << status, failedAt >>
     \/ /\ Raise
        /\ disk' = Torn(Encode(content, linesep))
        /\ UNCHANGED writeLog
  /\ UNCHANGED << linesep, script, content, out, readLog, hist >>

(* print("File updated successfully!") / print("Reduced all sizes!") *)
PrintStep ==
  /\ Running("print")
  /\ out' = Append(out, Message(script))
  /\ pc' = pc + 1
  /\ UNCHANGED << linesep, disk, script, status, content, f,
                  readLog, writeLog, failedAt, hist >>

(* The end of the file: the process exits with status 0. *)
Exit ==
  /\ status = "running"
  /\ pc = Len(Program(script)) + 1
  /\ status' = "done"
  /\ UNCHANGED << linesep, disk, script, pc, content, f, out,
                  readLog, writeLog, failedAt, hist >>

Next ==
  \/ \E s \in Scripts : Start(s)
  \/ OpenRead
  \/ Read
  \/ ReplaceStep
  \/ OpenWrite
  \/ Write
  \/ PrintStep
  \/ Exit

Spec == Init /\ [][Next]_vars

----------------------------------------------------------------------------
(* What the properties below are stated with.                              *)

Last(log) == log[Len(log)]

(* The positions at which sub occurs in s. *)
Occurrences(sub, s) ==
  LET first == SubSeq(sub, 1, 1)
  IN  {i \in 1..(Len(s) - Len(sub) + 1) :
         SubSeq(s, i, i) = first /\ SubSeq(s, i, i + Len(sub) - 1) = sub}

Occurs(sub, s) == Occurrences(sub, s) # {}

CountOf(sub, s) == Cardinality(Occurrences(sub, s))

(* The occurrences a left-to-right scan takes: an occurrence is taken      *)
(* unless it overlaps an occurrence taken to its left.                     *)
Taken(sub, s) ==
  LET occ == Occurrences(sub, s)
  IN  CHOOSE T \in SUBSET occ :
        \A i \in occ : (i \in T) <=> ~ \E j \in T : j < i /\ i < j + Len(sub)

RECURSIVE Rebuilt(_, _, _, _, _)
Rebuilt(s, T, from, width, new) ==
  IF T = {} THEN SubSeq(s, from, Len(s))
  ELSE LET i == CHOOSE x \in T : \A y \in T : x <= y
       IN  SubSeq(s, from, i - 1) \o new
             \o Rebuilt(s, T \ {i}, i + width, width, new)

(* s with every taken occurrence of old replaced by new. *)
Substituted(s, old, new) == Rebuilt(s, Taken(old, s), 1, Len(old), new)

(* s with the first n pairs of rules substituted, in the order listed. *)
RECURSIVE SubstitutedInOrder(_, _, _)
SubstitutedInOrder(rules, n, s) ==
  IF n = 0 THEN s
  ELSE Substituted(SubstitutedInOrder(rules, n - 1, s), rules[n][1], rules[n][2])

Completed(s) == status = "done" /\ script = s

NoOldOccurs(s, text) ==
  \A k \in 1..Len(Rules(s)) : ~ Occurs(Rules(s)[k][1], text)

CurrentRule == Rules(script)[Program(script)[pc].rule]

----------------------------------------------------------------------------
(* C1: for every content S the first f.read() of a script returns, the     *)
(* content the script writes last is S with the script's (old, new) pairs  *)
(* substituted in the order of the source, each substitution replacing     *)
(* every non-overlapping occurrence of old found from the left in the      *)
(* result of the previous one, and that is what the file then holds.       *)
C1_OutputIsOrderedSubstitution ==
  status = "done" =>
    LET expected == SubstitutedInOrder(Rules(script), Len(Rules(script)), readLog[1])
    IN  /\ Last(writeLog) = expected
        /\ disk = File(Encode(expected, linesep))

C1_Witness ==
  /\ Completed(Reduce)
  /\ CountOf("h-2 sm:h-3", readLog[1]) >= 2
  /\ Occurs("p-4 sm:p-6 md:p-8", readLog[1])
  /\ Last(writeLog) # readLog[1]

(* C2: a replace whose old substring does not occur in content leaves      *)
(* content as it is, raises nothing and is followed by the next statement; *)
(* a script none of whose old substrings occurs in what it read writes     *)
(* back exactly what it read and prints its message.                       *)
C2_AbsentOldIsNoOp ==
  /\ [][ (Running("replace") /\ ~ Occurs(CurrentRule[1], content))
           => /\ content' = content
              /\ status' = "running"
              /\ pc' = pc + 1
              /\ failedAt' = 0 ]_vars
  /\ [](status = "done" /\ NoOldOccurs(script, readLog[1])
          => /\ \A i \in 1..Len(writeLog) : writeLog[i] = readLog[1]
             /\ writeLog # << >>
             /\ out = << Message(script) >>)

C2_Witness ==
  /\ status = "done"
  /\ NoOldOccurs(script, readLog[1])
  /\ readLog[1] # ""
  /\ Last(writeLog) = readLog[1]

(* C3: an open, read or write that raises ends the script at that          *)
(* statement: nothing is executed after it, the message is never printed,  *)
(* and when it is the first open or the first read that raises, the file   *)
(* is never written and holds what it held.                                *)
C3_FailureIsFatal ==
  /\ [](failedAt # 0
          => /\ status = "crashed"
             /\ pc = failedAt
             /\ Program(script)[failedAt].op \in {"open_r", "read", "open_w", "write"}
             /\ out = << >>
             /\ (failedAt <= 2 => disk = startDisk /\ writeLog = << >>))
  /\ [][status = "crashed" => FALSE]_vars

C3_Witness ==
  /\ status = "crashed"
  /\ failedAt = 2
  /\ disk.kind = "file"
  /\ disk.data # ""
  /\ Occurs(Rules(script)[1][1], Decode(disk.data))

(* What the file holds once a script's first n replacements are written. *)
Stage(n) == Encode(SubstitutedInOrder(Rules(script), n, readLog[1]), linesep)

(* The numbers of replacements after which a script writes the file. *)
WritePoints(s) == IF s = Fix THEN << Len(Rules(Fix)) >> ELSE << 6, Len(Rules(Reduce)) >>

(* C4, as claimed: in every run the file is read once and overwritten      *)
(* once, and whenever it is not open for writing it holds the original     *)
(* content or the fully transformed content.                               *)
C4_DiskOriginalOrFinal ==
  (status # "idle" /\ f # "w" /\ disk.kind = "file")
    => /\ Len(readLog) <= 1
       /\ Len(writeLog) <= 1
       /\ \/ disk = startDisk
          \/ disk = File(Stage(Len(Rules(script))))

(* C4, amended: fix_quiz_width_final.py reads once and writes once, after  *)
(* its last replacement; reduce_quiz_sizes.py reads and writes twice, the  *)
(* first write after its sixth replacement and the second after its        *)
(* eighth. The file holds what it held at the start, or nothing while it   *)
(* is open for writing, or the content of one of those writes (or a part   *)
(* of it, when the write raised).                                          *)
C4_DiskHoldsAWriteStage ==
  /\ [](status # "idle" =>
          /\ Len(writeLog) <= Len(readLog)
          /\ Len(readLog) <= Len(WritePoints(script))
          /\ \/ disk = startDisk
             \/ f = "w" /\ disk = File("")
             \/ \E i \in 1..Len(writeLog) : disk = File(Encode(writeLog[i], linesep))
             \/ \E i \in 1..Len(WritePoints(script)) :
                  disk = Torn(Stage(WritePoints(script)[i])))
  /\ [][Len(writeLog') > Len(writeLog) =>
          /\ Len(readLog) = Len(writeLog')
          /\ Last(writeLog') =
               SubstitutedInOrder(Rules(script), WritePoints(script)[Len(writeLog')],
                                  readLog[1])]_vars

C4_Witness ==
  /\ script = Reduce
  /\ Len(writeLog) = 1
  /\ disk = File(Stage(6))
  /\ disk # startDisk
  /\ disk # File(Stage(Len(Rules(Reduce))))

(* C5: every 'p-4 sm:p-6 md:p-8' that reduce_quiz_sizes.py reads is        *)
(* written as 'p-2 sm:p-3', with no ' md:p-8' left behind it.              *)
C5_PaddingRuleTakesEffect ==
  (Completed(Reduce) /\ Occurs("p-4 sm:p-6 md:p-8", readLog[1]))
    => ~ Occurs("p-2 sm:p-3 md:p-8", Last(writeLog))

(* C6: when reduce_quiz_sizes.py completes, its second read returned       *)
(* exactly the buffer its first write was given, and what it wrote last is *)
(* its eight replacements applied in order to what it first read, in one   *)
(* buffer.                                                                 *)
C6_RereadChangesNothing ==
  Completed(Reduce) =>
    /\ Len(readLog) = 2
    /\ Len(writeLog) = 2
    /\ readLog[2] = writeLog[1]
    /\ writeLog[2] = ApplyFrom(Rules(Reduce), 1, readLog[1])

C6_Witness ==
  /\ Completed(Reduce)
  /\ linesep = "\r\n"
  /\ Occurs("\n", readLog[1])
  /\ writeLog[1] # readLog[1]
  /\ writeLog[2] # writeLog[1]

(* C7: the pair old_progress_calc / new_progress_calc is identical and is  *)
(* the old text of no replace call, no old text of                         *)
(* fix_quiz_width_final.py occurs inside it, and the script writes as many *)
(* occurrences of it as it read.                                           *)
C7_ProgressCalcUntouched ==
  /\ old_progress_calc = new_progress_calc
  /\ \A k \in 1..Len(Rules(Fix)) :
       /\ Rules(Fix)[k][1] # old_progress_calc
       /\ ~ Occurs(Rules(Fix)[k][1], old_progress_calc)
  /\ Completed(Fix)
       => CountOf(old_progress_calc, Last(writeLog)) = CountOf(old_progress_calc, readLog[1])

C7_Witness ==
  /\ Completed(Fix)
  /\ Occurs(old_progress_calc, readLog[1])
  /\ Last(writeLog) # readLog[1]

(* 'text-xs sm:text-sm' followed by two more ' sm:text-sm'. *)
SmallTextThrice == "text-xs sm:text-sm sm:text-sm sm:text-sm"

(* C8, as claimed: a run of reduce_quiz_sizes.py that follows a completed  *)
(* run of it finds none of its old substrings and leaves the file as it    *)
(* found it.                                                               *)
C8_ReduceIsIdempotent ==
  (Completed(Reduce) /\ prevScript = Reduce)
    => /\ NoOldOccurs(Reduce, readLog[1])
       /\ disk = startDisk

(* C8, amended: the same, for every content the first of the two runs      *)
(* read in which 'text-xs sm:text-sm sm:text-sm sm:text-sm' does not       *)
(* occur.                                                                  *)
C8_ReduceIsIdempotentWithoutThrice ==
  (Completed(Reduce) /\ prevScript = Reduce /\ ~ Occurs(SmallTextThrice, prevRead))
    => /\ NoOldOccurs(Reduce, readLog[1])
       /\ disk = startDisk

C8_Witness ==
  /\ Completed(Reduce)
  /\ prevScript = Reduce
  /\ ~ Occurs(SmallTextThrice, prevRead)
  /\ Occurs("text-xs sm:text-sm sm:text-sm", prevRead)
  /\ prevRead # readLog[1]

(* The other script. *)
Other(s) == IF s = Fix THEN Reduce ELSE Fix

(* What the two scripts leave when run in the order opposite to the one    *)
(* that was run: the current script first, on what the previous script     *)
(* read, and the previous script on its result.                            *)
IsOppositeOrder(text) ==
  \E mid \in {ApplyFrom(Rules(script), 1, prevRead)} :
    text = ApplyFrom(Rules(prevScript), 1, mid)

(* C9, as claimed: one script run after the other leaves what the two      *)
(* leave in the opposite order.                                            *)
C9_ScriptsCommute ==
  (status = "done" /\ prevScript = Other(script))
    => IsOppositeOrder(Last(writeLog))

(* The rules of fix_quiz_width_final.py (lines 24, 30, 36 and 41) whose    *)
(* old text holds an old text of reduce_quiz_sizes.py.                     *)
SharedRules == {2, 3, 4, 5}

(* C9, amended: the same, for every content the first of the two runs read *)
(* in which none of those four old texts occurs.                           *)
C9_ScriptsCommuteWithoutSharedText ==
  (/\ status = "done"
   /\ prevScript = Other(script)
   /\ \A k \in SharedRules : ~ Occurs(FixRules[k][1], prevRead))
    => IsOppositeOrder(Last(writeLog))

C9_Witness ==
  /\ status = "done"
  /\ prevScript = Other(script)
  /\ \A k \in SharedRules : ~ Occurs(FixRules[k][1], prevRead)
  /\ prevRead # readLog[1]
  /\ readLog[1] # Last(writeLog)

(* C10: fix_quiz_width_final.py writes exactly as many '>' as it read. *)
C10_TagClosersPreserved ==
  Completed(Fix) => CountOf(">", Last(writeLog)) = CountOf(">", readLog[1])

====
